---- MODULE Spec2Model ----
(***************************************************************************)
(* Off-ledger bridge logic of the Canton MPC deposit proof of concept.     *)
(*                                                                         *)
(* Part I  : the ledger update stream client (createLedgerStream) and the  *)
(*           daemon start-up that creates it (main).                       *)
(* Part II : the deposit lifecycle: the VaultOrchestrator choices on the   *)
(*           ledger, the MPC service (Signer) handler, the two Relayer     *)
(*           handlers and the external EVM chain.                          *)
(* Part III: the update callback of the MPC service (onUpdate) on one      *)
(*           Transaction update, up to each handler's first await.         *)
(* Part IV : the pure functions of the bridge (transaction serialization,  *)
(*           request id, key derivation), applied to inputs drawn from     *)
(*           bounded sets.                                                 *)
(***************************************************************************)
EXTENDS Integers, Sequences, FiniteSets, TLC

(***************************************************************************)
(* Bounds of the model.                                                    *)
(***************************************************************************)
\* number of updates the ledger feed ever holds
MaxUpdates == 2
\* number of onUpdate invocations recorded per stream client
MaxHanded == 3
\* opts.maxReconnectAttempts, a caller-supplied option
MaxAttempts == 3
\* opts.maxReconnectDelayMs, a caller-supplied option, in ms
MaxDelayMs == 2500
\* value at which the count of timer-driven connect() calls stops counting
MaxReconnects == 4
\* number of times the daemon process is started again after a crash
MaxRestarts == 1
\* number of events in the Transaction update passed to onUpdate
MaxEvents == 2
\* length of the hex strings the pure functions are applied to
MaxHexLen == 2
\* length of the texts of a derivation context
MaxTextLen == 2
\* number of request ids (distinct intent contents)
MaxRequestIds == 1
\* number of RequestEvmDeposit commands ever submitted
MaxAnchors == 1
\* number of RequestEvmDeposit commands submitted with one intent
MaxSameIntent == 2
\* number of times the feed hands the same created event to a daemon
MaxDeliveries == 2
\* handler invocations of the MPC service and of the Relayer
MaxSignerHandlers == 2
MaxRelayerHandlers == 3
\* contracts the lifecycle test's user creates by exercising choices itself
MaxTestContracts == 3
\* request ids the lifecycle test's user passes to the choices
MaxTestRequestIds == 2

VARIABLES
    \* ---- Part I: ledger feed and stream client ----
    ledger,            \* the feed: ledger[o] is the kind of the update at offset o
    procUp,            \* the daemon process is running
    restarts,          \* number of process restarts so far
    currentOffset,     \* let currentOffset
    closed,            \* let closed
    ws,                \* let ws: "null" or "set"
    sock,              \* state of the socket last created by connect()
    subPos,            \* offset of the last update the server sent on the socket's subscription
    subBegin,          \* beginExclusive carried by the socket's subscription
    reconnectAttempt,  \* let reconnectAttempt
    reconnectTimer,    \* a reconnect timer is pending
    polling,           \* position of the startPolling loop
    pollBegin,         \* beginExclusive of the poll request in flight
    \* ---- history of the stream client ----
    begin0,            \* opts.beginExclusive of the running client
    handed,            \* the onUpdate invocations of the running client, in order
    handedAfterClose,  \* onUpdate was invoked after close() had returned
    firstBegin,        \* opts.beginExclusive of the first client of the daemon
    everHanded,        \* offsets handed to onUpdate by any client of the daemon
    reconnects,        \* connect() calls made by the reconnect timer of the running client
    startedAfterClose, \* after close(): the timer ran, a socket was opened or a poll was issued
    delays,            \* the delays given to setTimeout since a socket last opened, in order
    \* ---- Part II: ledger contracts, handlers, external chain ----
    contracts,         \* every contract ever created; cids are in creation order
    active,            \* cids of the contracts that are not archived
    nextCid,           \* next contract id
    deliveries,        \* deliveries[cid]: times the created event was handed to its daemon
    sh,                \* handlePendingEvmDeposit invocations (MPC service)
    rh,                \* handleEcdsaSignature / handleEvmTxOutcomeSignature invocations
    chain,             \* chain[rid]: the signed transaction of rid on the EVM chain
    submissions,       \* every submitAndWait call: event, choice, commandId, applied
    lastRejected,      \* the latest rejected ClaimEvmDeposit: its arguments, and nextCid then
    \* ---- Part III: one call of the MPC service's onUpdate ----
    events,            \* update.Transaction.value.events of the update passed in
    loopPos,           \* index of the event the for loop looks at next
    loopState,         \* "running", "returned", or "thrown" out of the callback
    invocations,       \* the handlePendingEvmDeposit calls made, up to their first await
    \* ---- Part IV: pure functions ----
    input,             \* the arguments the functions are applied to
    output             \* what each application returned, by name

streamVars == <<ledger, procUp, restarts, currentOffset, closed, ws, sock, subPos,
                subBegin, reconnectAttempt, reconnectTimer, polling, pollBegin,
                begin0, handed, handedAfterClose, firstBegin, everHanded,
                reconnects, startedAfterClose, delays>>

lifeVars == <<contracts, active, nextCid, deliveries, sh, rh, chain, submissions,
              lastRejected>>

loopVars == <<events, loopPos, loopState, invocations>>

callVars == <<input, output>>

vars == <<streamVars, lifeVars, loopVars, callVars>>

(***************************************************************************)
(* Strings.  A hex string is the sequence of its digits' values, a decimal *)
(* string the sequence of its decimal digits.                              *)
(***************************************************************************)
RECURSIVE SeqsOfLen(_, _)
SeqsOfLen(S, n) ==
    IF n = 0 THEN {<<>>}
    ELSE {Append(q, x) : q \in SeqsOfLen(S, n - 1), x \in S}

\* the hex digits the inputs are made of
HexDigitsUsed == {0, 1}

HexStrings(n) == SeqsOfLen(HexDigitsUsed, n)

RECURSIVE HexToNat(_)
\* BigInt(`0x${h}`)
HexToNat(h) ==
    IF h = <<>> THEN 0
    ELSE 16 * HexToNat(SubSeq(h, 1, Len(h) - 1)) + h[Len(h)]

RECURSIVE DecimalDigits(_)
\* the decimal text of a non-negative integer
DecimalDigits(n) ==
    IF n < 10 THEN <<n>>
    ELSE Append(DecimalDigits(n \div 10), n % 10)

RECURSIVE DecimalToNat(_)
DecimalToNat(d) ==
    IF d = <<>> THEN 0
    ELSE 10 * DecimalToNat(SubSeq(d, 1, Len(d) - 1)) + d[Len(d)]

(***************************************************************************)
(* Part I.  Ledger update stream                                           *)
(***************************************************************************)

\* The kinds of JsGetUpdatesResponse.update: extractOffset knows the first two.
UpdateKinds == {"Transaction", "OffsetCheckpoint", "Other"}

NoOffset == -1

\* extractOffset(item): the offset embedded in a Transaction or an
\* OffsetCheckpoint, undefined for every other kind of update.
extractOffset(kind, off) ==
    IF kind = "Transaction" THEN off
    ELSE IF kind = "OffsetCheckpoint" THEN off
    ELSE NoOffset

\* handleUpdate(item), the cursor: advanced when an offset was extracted.
CursorAfter(cur, off) ==
    IF extractOffset(ledger[off], off) # NoOffset
    THEN extractOffset(ledger[off], off)
    ELSE cur

RECURSIVE CursorAfterBatch(_, _, _)
\* handleUpdate applied to the updates at offsets from..to in order.
CursorAfterBatch(cur, from, to) ==
    IF from > to THEN cur
    ELSE CursorAfterBatch(CursorAfter(cur, from), from + 1, to)

\* A resubscription that carries the option's offset instead of the cursor.
SubscriptionBeginFromOption == begin0

\* The beginExclusive a subscription message or a poll request carries.
SubscriptionBegin == currentOffset

\* The record of one onUpdate invocation.
Handed(off, b) == [off |-> off, begin |-> b]

HandedBatch(from, to, b) == [i \in 1..(to - from + 1) |-> Handed(from + i - 1, b)]

HandedOffsets(from, to) == from..to

\* A history counter that stops counting at its bound.
CountUpTo(n, max) == IF n < max THEN n + 1 ELSE n

\* An exhaustion test that lets one attempt too many through.
AttemptsExhaustedOffByOne == reconnectAttempt > MaxAttempts

\* scheduleReconnect: reconnectAttempt >= maxAttempts
AttemptsExhausted == reconnectAttempt >= MaxAttempts

\* the base of the reconnection delay, in ms
BaseDelayMs == 1000

Min(a, b) == IF a <= b THEN a ELSE b

\* The delay computed from the counter after it was incremented.
ReconnectDelayAfterIncrement(attempt) ==
    Min(BaseDelayMs * 2 ^ (attempt + 1), MaxDelayMs)

\* scheduleReconnect: Math.min(1000 * 2 ** reconnectAttempt, maxDelay)
ReconnectDelay(attempt) ==
    Min(BaseDelayMs * 2 ^ attempt, MaxDelayMs)

\* scheduleReconnect that goes on to set the timer after void startPolling()
TimerAfterPollingStartsNoReturn == TRUE

\* scheduleReconnect returns after void startPolling(): no timer is set.
TimerAfterPollingStarts == reconnectTimer

\* What the update callback does besides handling the update: returns,
\* calls stream.close() (the demo script does), or throws.
HandlerOutcomes == {"ok", "close", "throw"}

----
\* The ledger commits one more update.
LedgerAppend(kind) ==
    /\ UNCHANGED <<lifeVars, loopVars, callVars, startedAfterClose, delays>>
    /\ Len(ledger) < MaxUpdates
    /\ ledger' = Append(ledger, kind)
    /\ UNCHANGED <<procUp, restarts, currentOffset, closed, ws, sock, subPos, subBegin,
                   reconnectAttempt, reconnectTimer, polling, pollBegin, begin0,
                   handed, handedAfterClose, firstBegin, reconnects, everHanded>>

\* ws.on("open"): reset the attempt counter and send the subscription.
WsOpen ==
    /\ UNCHANGED <<lifeVars, loopVars, callVars, startedAfterClose>>
    /\ delays' = <<>>
    /\ procUp
    /\ sock = "connecting"
    /\ sock' = "open"
    /\ reconnectAttempt' = 0
    /\ subBegin' = SubscriptionBegin
    /\ subPos' = SubscriptionBegin
    /\ UNCHANGED <<ledger, procUp, restarts, currentOffset, closed, ws, reconnectTimer,
                   polling, pollBegin, begin0, handed, handedAfterClose, firstBegin, reconnects,
                   everHanded>>

\* close(): set closed, clear the reconnect timer, close and forget the socket.
\* ws.close() starts the closing handshake: the socket is CLOSING until the
\* peer answers, and the library still emits the messages that arrive meanwhile.
CloseSock == IF ws = "set" /\ sock # "none" THEN "closing" ELSE sock

\* ws.on("message"): parse, then handleUpdate(parsed); anything thrown is
\* reported through onError.
WsMessage(what) ==
    /\ UNCHANGED <<lifeVars, loopVars, callVars, startedAfterClose, delays>>
    /\ procUp
    /\ sock \in {"open", "closing"}
    /\ subPos # NoOffset
    /\ subPos < Len(ledger)
    /\ Len(handed) < MaxHanded
    /\ LET off == subPos + 1 IN
        /\ subPos' = off
        /\ currentOffset' = CursorAfter(currentOffset, off)
        /\ handed' = Append(handed, Handed(off, subBegin))
        /\ everHanded' = everHanded \cup {off}
        /\ handedAfterClose' = (handedAfterClose \/ closed)
        /\ IF what = "close"
           THEN /\ closed' = TRUE
                /\ reconnectTimer' = FALSE
                /\ sock' = CloseSock
                /\ ws' = "null"
           ELSE UNCHANGED <<closed, reconnectTimer, sock, ws>>
    /\ UNCHANGED <<ledger, procUp, restarts, subBegin, reconnectAttempt, polling,
                   pollBegin, begin0, firstBegin, reconnects>>

\* ws.on("close"): nothing once closed; otherwise forget the socket and
\* scheduleReconnect(): a timer for connect(), or startPolling() once the
\* attempts are exhausted (its first getUpdates request is issued at once).
WsCloseEvent ==
    /\ UNCHANGED <<lifeVars, loopVars, callVars, startedAfterClose>>
    /\ procUp
    /\ sock \in {"connecting", "open", "closing"}
    /\ sock' = "none"
    /\ subPos' = NoOffset
    /\ IF closed
       THEN UNCHANGED <<ws, reconnectAttempt, reconnectTimer, polling, pollBegin, delays>>
       ELSE /\ ws' = "null"
            /\ IF AttemptsExhausted
               THEN /\ polling' = "inflight"
                    /\ pollBegin' = SubscriptionBegin
                    /\ reconnectTimer' = TimerAfterPollingStarts
                    /\ UNCHANGED <<reconnectAttempt, delays>>
               ELSE /\ delays' = Append(delays, ReconnectDelay(reconnectAttempt))
                    /\ reconnectAttempt' = reconnectAttempt + 1
                    /\ reconnectTimer' = TRUE
                    /\ UNCHANGED <<polling, pollBegin>>
    /\ UNCHANGED <<ledger, procUp, restarts, currentOffset, closed, subBegin, begin0,
                   handed, handedAfterClose, firstBegin, reconnects, everHanded>>

\* The reconnect timer fires: connect().
TimerFires ==
    /\ UNCHANGED <<lifeVars, loopVars, callVars, delays>>
    /\ procUp
    /\ reconnectTimer
    /\ reconnectTimer' = FALSE
    /\ startedAfterClose' = (startedAfterClose \/ closed)
    /\ IF closed
       THEN UNCHANGED <<ws, sock, reconnects>>
       ELSE /\ ws' = "set"
            /\ sock' = "connecting"
            /\ reconnects' = CountUpTo(reconnects, MaxReconnects)
    /\ UNCHANGED <<ledger, procUp, restarts, currentOffset, closed, subPos, subBegin,
                   reconnectAttempt, polling, pollBegin, begin0, handed,
                   handedAfterClose, firstBegin, everHanded>>

\* A polling loop that goes round whatever closed is.
LoopContinuesIgnoringClosed(c) == TRUE

\* while (!closed)
LoopContinues(c) == ~c

\* What opts.onError does when startPolling's catch block calls it: returns
\* or throws. What it throws leaves the async function: the loop is over.
CallbackOutcomes == {"ok", "throw"}

AfterPollCatch(cb) == IF cb = "throw" THEN "dead" ELSE "backoff"

\* getUpdates answers with the n updates after pollBegin; the loop hands them
\* over one by one, checking closed before each. The k-th one ends with `what`;
\* then the while loop issues the next request unless closed. What onUpdate
\* throws is caught and reported through onError, which ends with cb.
PollResponse(n, k, what, cb) ==
    /\ UNCHANGED <<lifeVars, loopVars, callVars, delays>>
    /\ procUp
    /\ polling = "inflight"
    /\ n \in 0..(Len(ledger) - pollBegin)
    /\ k \in 0..n
    /\ IF closed THEN k = 0 /\ what = "ok"
       ELSE IF what = "ok" THEN k = n ELSE k >= 1
    /\ what # "throw" => cb = "ok"
    /\ Len(handed) + k <= MaxHanded
    /\ UNCHANGED <<ledger, procUp, restarts, ws, sock, subPos, subBegin,
                   reconnectAttempt, reconnectTimer, begin0, handedAfterClose,
                   firstBegin, reconnects>>
    /\ currentOffset' = CursorAfterBatch(currentOffset, pollBegin + 1, pollBegin + k)
    /\ handed' = handed \o HandedBatch(pollBegin + 1, pollBegin + k, pollBegin)
    /\ everHanded' = everHanded \cup HandedOffsets(pollBegin + 1, pollBegin + k)
    /\ closed' = (closed \/ what = "close")
    /\ IF what = "throw"
       THEN /\ polling' = AfterPollCatch(cb)
            /\ UNCHANGED <<pollBegin>>
       ELSE IF ~LoopContinues(closed')
       THEN /\ polling' = "off"
            /\ UNCHANGED <<pollBegin>>
       ELSE /\ polling' = "inflight"
            /\ pollBegin' = SubscriptionBegin'
    /\ startedAfterClose' = (startedAfterClose \/ (closed' /\ polling' = "inflight"))

\* getUpdates throws: leave the loop if closed, else onError and back off.
PollError(cb) ==
    /\ UNCHANGED <<lifeVars, loopVars, callVars, startedAfterClose, delays>>
    /\ procUp
    /\ polling = "inflight"
    /\ closed => cb = "ok"
    /\ polling' = IF closed THEN "off" ELSE AfterPollCatch(cb)
    /\ UNCHANGED <<ledger, procUp, restarts, currentOffset, closed, ws, sock, subPos,
                   subBegin, reconnectAttempt, reconnectTimer, pollBegin, begin0,
                   handed, handedAfterClose, firstBegin, reconnects, everHanded>>

\* The error backoff elapses: while (!closed) issues the next request.
PollBackoffDone ==
    /\ UNCHANGED <<lifeVars, loopVars, callVars, delays>>
    /\ procUp
    /\ polling = "backoff"
    /\ IF ~LoopContinues(closed)
       THEN /\ polling' = "off"
            /\ UNCHANGED <<pollBegin>>
       ELSE /\ polling' = "inflight"
            /\ pollBegin' = SubscriptionBegin
    /\ startedAfterClose' = (startedAfterClose \/ (closed /\ polling' = "inflight"))
    /\ UNCHANGED <<ledger, procUp, restarts, currentOffset, closed, ws, sock, subPos,
                   subBegin, reconnectAttempt, reconnectTimer, begin0, handed,
                   handedAfterClose, firstBegin, reconnects, everHanded>>

\* The owner of the stream handle calls close(), for the first time or again.
Close ==
    /\ UNCHANGED <<lifeVars, loopVars, callVars, startedAfterClose, delays>>
    /\ procUp
    /\ closed' = TRUE
    /\ reconnectTimer' = FALSE
    /\ sock' = CloseSock
    /\ ws' = "null"
    /\ UNCHANGED <<ledger, procUp, restarts, currentOffset, subPos, subBegin,
                   reconnectAttempt, polling, pollBegin, begin0, handed,
                   handedAfterClose, firstBegin, reconnects, everHanded>>

\* The daemon process dies: everything it held in memory is gone.
Crash ==
    /\ UNCHANGED <<lifeVars, loopVars, callVars, startedAfterClose, delays>>
    /\ procUp
    /\ restarts < MaxRestarts
    /\ procUp' = FALSE
    /\ closed' = FALSE
    /\ ws' = "null"
    /\ sock' = "none"
    /\ subPos' = NoOffset
    /\ subBegin' = NoOffset
    /\ reconnectAttempt' = 0
    /\ reconnectTimer' = FALSE
    /\ polling' = "off"
    /\ pollBegin' = NoOffset
    /\ UNCHANGED <<ledger, restarts, currentOffset, begin0, handed,
                   handedAfterClose, firstBegin, reconnects, everHanded>>

\* main(): offset = await getLedgerEnd(), then createLedgerStream with
\* beginExclusive: offset; createLedgerStream ends with connect().
StartOffset == Len(ledger)

MainStart ==
    /\ UNCHANGED <<lifeVars, loopVars, callVars>>
    /\ delays' = <<>>
    /\ ~procUp
    /\ procUp' = TRUE
    /\ restarts' = restarts + 1
    /\ begin0' = StartOffset
    /\ currentOffset' = StartOffset
    /\ ws' = "set"
    /\ sock' = "connecting"
    /\ handed' = <<>>
    /\ handedAfterClose' = FALSE
    /\ startedAfterClose' = FALSE
    /\ reconnects' = 0
    /\ UNCHANGED <<ledger, closed, subPos, subBegin, reconnectAttempt, reconnectTimer,
                   polling, pollBegin, firstBegin, everHanded>>

(***************************************************************************)
(* Part II.  Deposit lifecycle                                             *)
(***************************************************************************)
RequestIds == 1..MaxRequestIds

\* A signature: the key that made it and the message (request id, output) it covers.
NoSig == [key |-> "none", rid |-> 0, out |-> ""]

\* signEvmTxHash(deriveChildPrivateKey(root, requester, path, caip2Id), txHash)
signEvmTxHash(rid) == [key |-> "child", rid |-> rid, out |-> ""]

\* An attestation made with the child key of the request.
signMpcResponseWithChildKey(rid, out) == [key |-> "child", rid |-> rid, out |-> out]

\* signMpcResponse(rootPrivateKey, requestId, mpcOutput): the root key over
\* keccak256(requestId || mpcOutput)
signMpcResponse(rid, out) == [key |-> "root", rid |-> rid, out |-> out]

\* secp256k1WithEcdsaOnly signature (computeResponseHash requestId mpcOutput) mpcPublicKey
VerifiesUnderRoot(sig, rid, out) == sig = [key |-> "root", rid |-> rid, out |-> out]

\* no party
NoParty == [party |-> "none", n |-> 0]

Contract(cid, tmpl, rid, by) ==
    [cid |-> cid, tmpl |-> tmpl, rid |-> rid, by |-> by, out |-> "", sig |-> NoSig,
     pend |-> 0, outc |-> 0, owner |-> NoParty, amount |-> 0]

\* The request id is the hash of the requester, the path and the evm
\* parameters: the anchors of one request id have one requester and one
\* argument list, transfer(address,uint256)'s recipient and amount.
IntentOf(rid) ==
    [requester |-> [party |-> "Depositor", n |-> rid],
     args |-> <<(<<1>>), (<<rid, 0>>)>>]

ByTemplate(tmpl) == {c \in contracts : c.tmpl = tmpl}

ContractAt(cid) == CHOOSE c \in contracts : c.cid = cid

\* getActiveContracts([issuer], "Erc20Vault:PendingEvmDeposit")
ActiveAnchors == {c \in ByTemplate("PendingEvmDeposit") : c.cid \in active}

\* contracts.find(c => c.createArgument.requestId === requestId)
MatchingAnchors(rid) == {c \in ActiveAnchors : c.rid = rid}

\* commandId: crypto.randomUUID(): a value no other call of submitAndWait
\* returns. The call is named by the handler invocation and the choice.
CommandId(actor, h, choice) == <<actor, h, choice>>

\* The ledger applies a command unless it has seen its (userId, commandId).
Deduplicated(cmdId) == \E x \in submissions : x.cmdId = cmdId /\ x.applied

Submission(actor, h, ev, choice, applied) ==
    [actor |-> actor, ev |-> ev, choice |-> choice, cmdId |-> CommandId(actor, h, choice),
     applied |-> applied]

\* receipt.status === "success" ? "01" : "00"; "00" when waiting throws
MpcOutput(seen) == IF seen = "success" THEN "01" ELSE "00"

SetAt(seq, i, v) == [seq EXCEPT ![i] = v]

NoClaim == [pend |-> 0, outc |-> 0, at |-> 0]

\* A created contract gets the next contract id and is active.
Create(c) ==
    /\ contracts' = contracts \cup {c}
    /\ active' = active \cup {c.cid}
    /\ deliveries' = deliveries @@ (c.cid :> 0)
    /\ nextCid' = nextCid + 1

----
\* nonconsuming choice RequestEvmDeposit: create PendingEvmDeposit with the
\* request id computed from the requester, the path and the evm parameters.
RequestEvmDeposit(rid) ==
    /\ Cardinality(ByTemplate("PendingEvmDeposit")) < MaxAnchors
    /\ Create(Contract(nextCid, "PendingEvmDeposit", rid, "initiator"))
    /\ UNCHANGED <<sh, rh, chain, submissions, lastRejected>>
    /\ UNCHANGED <<streamVars, loopVars, callVars>>

\* RequestEvmDeposit exercised again with the requester, path and evm
\* parameters of an earlier command: the choice creates another
\* PendingEvmDeposit with the same request id.
RequestSameIntent(rid) ==
    /\ Cardinality({c \in ByTemplate("PendingEvmDeposit") : c.rid = rid}) < MaxSameIntent
    /\ Create(Contract(nextCid, "PendingEvmDeposit", rid, "initiator"))
    /\ UNCHANGED <<sh, rh, chain, submissions, lastRejected>>
    /\ UNCHANGED <<streamVars, loopVars, callVars>>

\* MPC service onUpdate: a created event whose template is PendingEvmDeposit
\* starts handlePendingEvmDeposit, not awaited.
SignerOnUpdate(cid) ==
    /\ cid \in DOMAIN deliveries
    /\ ContractAt(cid).tmpl = "PendingEvmDeposit"
    /\ deliveries[cid] < MaxDeliveries
    /\ Len(sh) < MaxSignerHandlers
    /\ deliveries' = [deliveries EXCEPT ![cid] = @ + 1]
    /\ sh' = Append(sh, [ev |-> cid, rid |-> ContractAt(cid).rid, pc |-> "sign",
                         seen |-> "", out |-> "", sigPosted |-> FALSE,
                         outPosted |-> FALSE])
    /\ UNCHANGED <<contracts, active, nextCid, rh, chain, submissions, lastRejected>>
    /\ UNCHANGED <<streamVars, loopVars, callVars>>

\* A handler that goes on to the receipt although SignEvmTx failed.
AfterSignEvmTxIgnoringFailure(ok) == "poll"

\* await exerciseChoice(... "SignEvmTx" ...): what it throws ends the handler.
AfterSignEvmTx(ok) == IF ok THEN "poll" ELSE "failed"

\* Phase 1: derive the child key, sign the transaction hash, exercise SignEvmTx.
\* nonconsuming choice SignEvmTx: create EcdsaSignature. A failed submission
\* rejects the handler's promise.
SignerSign(i, ok) ==
    /\ i \in DOMAIN sh
    /\ sh[i].pc = "sign"
    /\ LET applied == ok /\ ~Deduplicated(CommandId("signer", i, "SignEvmTx")) IN
        /\ submissions' = submissions \cup
                {Submission("signer", i, sh[i].ev, "SignEvmTx", applied)}
        /\ IF applied
           THEN /\ Create([Contract(nextCid, "EcdsaSignature", sh[i].rid, "signer")
                           EXCEPT !.sig = signEvmTxHash(sh[i].rid)])
           ELSE UNCHANGED <<contracts, active, deliveries, nextCid>>
        /\ sh' = SetAt(sh, i, [sh[i] EXCEPT !.pc = AfterSignEvmTx(ok),
                                            !.sigPosted = applied])
    /\ UNCHANGED <<rh, chain, lastRejected>>
    /\ UNCHANGED <<streamVars, loopVars, callVars>>

\* Phase 2: waitForTransactionReceipt(signedTxHash, timeout 120 s): a receipt
\* if the transaction is mined in time, else it throws (deadline or RPC error).
ReceiptResults(rid) ==
    {"timeout"} \cup (IF chain[rid] \in {"success", "reverted"} THEN {chain[rid]} ELSE {})

\* A Signer that sends the transaction it reconstructed before polling for it.
ChainAfterSignerBroadcasts(rid) ==
    IF chain[rid] = "none" THEN [chain EXCEPT ![rid] = "pending"] ELSE chain

\* createPublicClient and waitForTransactionReceipt: the Signer's client reads
\* the chain and sends nothing to it.
ChainAfterSigner(rid) == chain

\* loadMpcEnvConfig adds MPC_ROOT_PRIVATE_KEY to what loadEnvConfig gives; the
\* Relayer's main calls loadEnvConfig.
ConfigKeys(actor) == IF actor = "signer" THEN {"root"} ELSE {}

SignerPoll(i, seen) ==
    /\ i \in DOMAIN sh
    /\ sh[i].pc = "poll"
    /\ seen \in ReceiptResults(sh[i].rid)
    /\ sh' = SetAt(sh, i, [sh[i] EXCEPT !.pc = "attest", !.seen = seen,
                                        !.out = MpcOutput(seen)])
    /\ chain' = ChainAfterSigner(sh[i].rid)
    /\ UNCHANGED <<contracts, active, nextCid, deliveries, rh, submissions, lastRejected>>
    /\ UNCHANGED <<streamVars, loopVars, callVars>>

\* signMpcResponse, then exercise ProvideEvmOutcomeSig.
\* nonconsuming choice ProvideEvmOutcomeSig: create EvmTxOutcomeSignature.
SignerAttest(i, ok) ==
    /\ i \in DOMAIN sh
    /\ sh[i].pc = "attest"
    /\ LET applied == ok /\ ~Deduplicated(CommandId("signer", i, "ProvideEvmOutcomeSig")) IN
        /\ submissions' = submissions \cup
                {Submission("signer", i, sh[i].ev, "ProvideEvmOutcomeSig", applied)}
        /\ IF applied
           THEN /\ Create([Contract(nextCid, "EvmTxOutcomeSignature", sh[i].rid, "signer")
                           EXCEPT !.out = sh[i].out,
                                  !.sig = signMpcResponse(sh[i].rid, sh[i].out)])
           ELSE UNCHANGED <<contracts, active, deliveries, nextCid>>
        /\ sh' = SetAt(sh, i, [sh[i] EXCEPT !.pc = IF ok THEN "done" ELSE "failed",
                                            !.outPosted = applied])
    /\ UNCHANGED <<rh, chain, lastRejected>>
    /\ UNCHANGED <<streamVars, loopVars, callVars>>


\* Relayer onUpdate: a created EcdsaSignature starts handleEcdsaSignature, a
\* created EvmTxOutcomeSignature starts handleEvmTxOutcomeSignature; not awaited.
RelayerHandlerFor(tmpl) ==
    IF tmpl = "EcdsaSignature" THEN "sig"
    ELSE IF tmpl = "EvmTxOutcomeSignature" THEN "outcome"
    ELSE "none"

RelayerOnUpdate(cid) ==
    /\ cid \in DOMAIN deliveries
    /\ RelayerHandlerFor(ContractAt(cid).tmpl) # "none"
    /\ deliveries[cid] < MaxDeliveries
    /\ Len(rh) < MaxRelayerHandlers
    /\ deliveries' = [deliveries EXCEPT ![cid] = @ + 1]
    /\ rh' = Append(rh, [kind |-> RelayerHandlerFor(ContractAt(cid).tmpl), ev |-> cid,
                         rid |-> ContractAt(cid).rid, pc |-> "query", pend |-> 0,
                         fault |-> FALSE])
    /\ UNCHANGED <<contracts, active, nextCid, sh, chain, submissions, lastRejected>>
    /\ UNCHANGED <<streamVars, loopVars, callVars>>

\* Both handlers: getActiveContracts, find the anchor with the event's request
\* id; none: log and return.
AfterLookupNoGuard(found, kind) == IF kind = "sig" THEN "broadcast" ELSE "claim"

\* if (!matching) { log; return }, else on to the broadcast or to the claim
AfterLookup(found, kind) ==
    IF ~found THEN "skipped"
    ELSE IF kind = "sig" THEN "broadcast" ELSE "claim"

RelayerLookup(i) ==
    /\ i \in DOMAIN rh
    /\ rh[i].pc = "query"
    /\ IF MatchingAnchors(rh[i].rid) = {}
       THEN rh' = SetAt(rh, i, [rh[i] EXCEPT !.pc = AfterLookup(FALSE, rh[i].kind)])
       ELSE \E a \in MatchingAnchors(rh[i].rid) :
               rh' = SetAt(rh, i, [rh[i] EXCEPT !.pc = AfterLookup(TRUE, rh[i].kind),
                                                !.pend = a.cid])
    /\ UNCHANGED <<contracts, active, nextCid, deliveries, sh, chain, submissions, lastRejected>>
    /\ UNCHANGED <<streamVars, loopVars, callVars>>

\* handleEcdsaSignature: reconstructSignedTx, then eth_sendRawTransaction. The
\* node accepts a transaction it does not know and rejects one it knows; the
\* call fails when the node is not reached (fault).
RelayerBroadcast(i, ok) ==
    /\ i \in DOMAIN rh
    /\ rh[i].pc = "broadcast"
    /\ LET accepted == ok /\ chain[rh[i].rid] = "none" IN
        /\ chain' = IF accepted THEN [chain EXCEPT ![rh[i].rid] = "pending"] ELSE chain
        /\ rh' = SetAt(rh, i, [rh[i] EXCEPT !.pc = IF accepted THEN "done" ELSE "failed",
                                            !.fault = ~ok])
    /\ UNCHANGED <<contracts, active, nextCid, deliveries, sh, submissions,
                   lastRejected>>
    /\ UNCHANGED <<streamVars, loopVars, callVars>>

\* nonconsuming choice ClaimEvmDeposit pendingCid outcomeCid: fetch both, the
\* request ids agree, mpcOutput is "01", the signature verifies under
\* mpcPublicKey; then archive both and create Erc20Holding.
ClaimAcceptedAnyOutput(pendingCid, outcomeCid) ==
    /\ pendingCid \in active
    /\ outcomeCid \in active
    /\ ContractAt(pendingCid).tmpl = "PendingEvmDeposit"
    /\ ContractAt(outcomeCid).tmpl = "EvmTxOutcomeSignature"
    /\ ContractAt(pendingCid).rid = ContractAt(outcomeCid).rid
    /\ VerifiesUnderRoot(ContractAt(outcomeCid).sig, ContractAt(pendingCid).rid,
                         ContractAt(outcomeCid).out)

ClaimAccepted(pendingCid, outcomeCid) ==
    /\ pendingCid \in active
    /\ outcomeCid \in active
    /\ ContractAt(pendingCid).tmpl = "PendingEvmDeposit"
    /\ ContractAt(outcomeCid).tmpl = "EvmTxOutcomeSignature"
    /\ ContractAt(pendingCid).rid = ContractAt(outcomeCid).rid
    /\ ContractAt(outcomeCid).out = "01"
    /\ VerifiesUnderRoot(ContractAt(outcomeCid).sig, ContractAt(pendingCid).rid,
                         ContractAt(outcomeCid).out)

\* The command's effect: archive pendingCid and outcomeCid and create the
\* Erc20Holding when the choice body succeeds, else nothing changes.
\* The holding gets owner = pending.requester and the amount of the command,
\* a decimal text read as a Decimal.
ClaimEvmDeposit(pendingCid, outcomeCid, amount, by, accepted) ==
    /\ lastRejected' = IF accepted THEN lastRejected
                       ELSE [pend |-> pendingCid, outc |-> outcomeCid, at |-> nextCid]
    /\ IF accepted
       THEN /\ contracts' = contracts \cup
                  {[Contract(nextCid, "Erc20Holding", ContractAt(pendingCid).rid, by)
                       EXCEPT !.pend = pendingCid, !.outc = outcomeCid,
                              !.owner = IntentOf(ContractAt(pendingCid).rid).requester,
                              !.amount = DecimalToNat(amount)]}
            /\ active' = (active \ {pendingCid, outcomeCid}) \cup {nextCid}
            /\ deliveries' = deliveries @@ (nextCid :> 0)
            /\ nextCid' = nextCid + 1
       ELSE UNCHANGED <<contracts, active, deliveries, nextCid>>

\* An amount taken from the first call argument, the recipient.
ClaimAmountFromFirstArg(pendingCid) ==
    DecimalDigits(HexToNat(IntentOf(ContractAt(pendingCid).rid).args[1]))

\* BigInt("0x" + evmParamsArgs[1]!).toString(): the second call argument of
\* the anchor as decimal text
ClaimAmount(pendingCid) ==
    DecimalDigits(HexToNat(IntentOf(ContractAt(pendingCid).rid).args[2]))

\* handleEvmTxOutcomeSignature: exercise ClaimEvmDeposit with the anchor found
\* and the triggering evidence. A rejected command rejects the promise.
RelayerClaim(i, ok) ==
    /\ i \in DOMAIN rh
    /\ rh[i].pc = "claim"
    /\ LET applied == /\ ok
                      /\ ~Deduplicated(CommandId("relayer", i, "ClaimEvmDeposit"))
                      /\ ClaimAccepted(rh[i].pend, rh[i].ev)
       IN
        /\ submissions' = submissions \cup
                {Submission("relayer", i, rh[i].ev, "ClaimEvmDeposit", applied)}
        /\ ClaimEvmDeposit(rh[i].pend, rh[i].ev, ClaimAmount(rh[i].pend), "relayer", applied)
        /\ rh' = SetAt(rh, i, [rh[i] EXCEPT !.pc = IF applied THEN "done" ELSE "failed",
                                            !.fault = ~ok])
    /\ UNCHANGED <<sh, chain>>
    /\ UNCHANGED <<streamVars, loopVars, callVars>>

\* The EVM chain mines a broadcast transaction: it succeeds or reverts.
ChainMines(rid, status) ==
    /\ chain[rid] = "pending"
    /\ status \in {"success", "reverted"}
    /\ chain' = [chain EXCEPT ![rid] = status]
    /\ UNCHANGED <<contracts, active, nextCid, deliveries, sh, rh, submissions, lastRejected>>
    /\ UNCHANGED <<streamVars, loopVars, callVars>>

\* deposit-e2e test: the admin user, acting as every party, exercises the
\* choices itself with arguments of its own.
TestRequestIds == 1..MaxTestRequestIds

\* contracts created by the test user's own Request and Provide commands
TestCreated == {c \in contracts : c.by = "test" /\ c.tmpl # "Erc20Holding"}

TestKeys == {"root", "other"}

TestRequestEvmDeposit(rid) ==
    /\ Cardinality(TestCreated) < MaxTestContracts
    /\ Create(Contract(nextCid, "PendingEvmDeposit", rid, "test"))
    /\ UNCHANGED <<sh, rh, chain, submissions, lastRejected>>
    /\ UNCHANGED <<streamVars, loopVars, callVars>>

TestProvideEvmOutcomeSig(rid, out, key) ==
    /\ Cardinality(TestCreated) < MaxTestContracts
    /\ Create([Contract(nextCid, "EvmTxOutcomeSignature", rid, "test")
                  EXCEPT !.out = out, !.sig = [key |-> key, rid |-> rid, out |-> out]])
    /\ UNCHANGED <<sh, rh, chain, submissions, lastRejected>>
    /\ UNCHANGED <<streamVars, loopVars, callVars>>

\* SignEvmTx { requestId, r, s, v } with any r, s, v: the choice creates the
\* EcdsaSignature without looking at them.
TestSigKeys == {"child", "other"}

TestSignEvmTx(rid, key) ==
    /\ Cardinality(TestCreated) < MaxTestContracts
    /\ Create([Contract(nextCid, "EcdsaSignature", rid, "test")
                  EXCEPT !.sig = [key |-> key, rid |-> rid, out |-> ""]])
    /\ UNCHANGED <<sh, rh, chain, submissions, lastRejected>>
    /\ UNCHANGED <<streamVars, loopVars, callVars>>

TestClaimEvmDeposit(pendingCid, outcomeCid) ==
    /\ ContractAt(pendingCid).tmpl = "PendingEvmDeposit"
    /\ ContractAt(outcomeCid).tmpl = "EvmTxOutcomeSignature"
    /\ ClaimEvmDeposit(pendingCid, outcomeCid, ClaimAmount(pendingCid), "test",
                       ClaimAccepted(pendingCid, outcomeCid))
    /\ UNCHANGED <<sh, rh, chain, submissions>>
    /\ UNCHANGED <<streamVars, loopVars, callVars>>

(***************************************************************************)
(* Part III.  The update callback                                          *)
(***************************************************************************)
\* The required fields of a PendingEvmDeposit payload; "none": all present.
MissingFields == {"none", "requester", "path", "requestId", "evmParams"}

\* An event of the update: not an object at all, an event that is not a
\* CreatedEvent, or a CreatedEvent whose templateId is absent, not a string,
\* another template's, or PendingEvmDeposit's (with its payload).
Event(shape, tmpl, missing) == [shape |-> shape, tmpl |-> tmpl, missing |-> missing]

EventKinds ==
    {Event("notobject", "absent", "none"), Event("archived", "absent", "none")}
    \cup {Event("created", t, "none") : t \in {"absent", "notstring", "Erc20Holding"}}
    \cup {Event("created", "PendingEvmDeposit", f) : f \in MissingFields}

UpdateEvents == UNION {SeqsOfLen(EventKinds, n) : n \in 1..MaxEvents}

\* "CreatedEvent" in event throws for a value that is not an object;
\* created.templateId?.includes throws for a templateId that is not a string.
ThrowsInLoop(e) ==
    \/ e.shape = "notobject"
    \/ e.shape = "created" /\ e.tmpl = "notstring"

\* if (!("CreatedEvent" in event)) continue;
\* if (!created.templateId?.includes("PendingEvmDeposit")) continue;
Dispatches(e) == e.shape = "created" /\ e.tmpl = "PendingEvmDeposit"

\* evmParams.chainId and serializeUnsignedTx(evmParams) throw when evmParams or
\* one of its fields is absent; the other fields are cast and used as they are.
ThrowsBeforeDerive(missing) == missing = "evmParams"

\* deriveChildPrivateKey formats predecessorId and path into the derivation
\* string: an absent one becomes the text "undefined".
DerivedFrom(missing) ==
    IF ThrowsBeforeDerive(missing) THEN "nothing"
    ELSE IF missing \in {"requester", "path"} THEN "undefined-text"
    ELSE "payload"

\* handlePendingEvmDeposit(event) up to its first await: derive the child key,
\* sign the transaction hash, send the SignEvmTx command and await its result.
\* What is thrown before that rejects the returned promise.
HandlerPrefix(k, missing) ==
    [ev |-> k,
     derived |-> DerivedFrom(missing),
     signed |-> ~ThrowsBeforeDerive(missing),
     submitted |-> ~ThrowsBeforeDerive(missing),
     pc |-> IF ThrowsBeforeDerive(missing) THEN "rejected" ELSE "awaiting"]

\* A loop that awaits each handler before it looks at the next event.
DispatchWaitsForPending(invs) == {n \in DOMAIN invs : invs[n].pc = "awaiting"}

\* handlePendingEvmDeposit({...}).catch(...): the call is not awaited, the
\* loop waits for no handler.
DispatchWaitsFor(invs) == {}

\* One turn of for (const event of update.Transaction.value.events ?? []).
OnUpdateEvent ==
    /\ loopState = "running"
    /\ loopPos <= Len(events)
    /\ DispatchWaitsFor(invocations) = {}
    /\ IF ThrowsInLoop(events[loopPos])
       THEN /\ loopState' = "thrown"
            /\ UNCHANGED <<loopPos, invocations>>
       ELSE /\ loopPos' = loopPos + 1
            /\ invocations' =
                  IF Dispatches(events[loopPos])
                  THEN Append(invocations, HandlerPrefix(loopPos, events[loopPos].missing))
                  ELSE invocations
            /\ UNCHANGED loopState
    /\ UNCHANGED <<events, streamVars, lifeVars, callVars>>

\* The I/O a handler awaits ends: the handler goes on to its end, or fails and
\* its .catch logs. The callback runs to completion first: no continuation
\* runs while the synchronous loop is on the stack.
HandlerSettles(n) ==
    /\ invocations[n].pc = "awaiting"
    /\ loopState # "running" \/ n \in DispatchWaitsFor(invocations)
    /\ invocations' = SetAt(invocations, n, [invocations[n] EXCEPT !.pc = "settled"])
    /\ UNCHANGED <<events, loopPos, loopState, streamVars, lifeVars, callVars>>

\* The loop is through: onUpdate returns.
OnUpdateReturn ==
    /\ loopState = "running"
    /\ loopPos > Len(events)
    /\ loopState' = "returned"
    /\ UNCHANGED <<events, loopPos, invocations, streamVars, lifeVars, callVars>>

----
InitStreamAndLedger ==
    /\ ledger = <<>>
    /\ procUp = TRUE
    /\ restarts = 0
    /\ currentOffset = 0
    /\ closed = FALSE
    /\ ws = "set"
    /\ sock = "connecting"
    /\ subPos = NoOffset
    /\ subBegin = NoOffset
    /\ reconnectAttempt = 0
    /\ reconnectTimer = FALSE
    /\ polling = "off"
    /\ pollBegin = NoOffset
    /\ begin0 = 0
    /\ handed = <<>>
    /\ handedAfterClose = FALSE
    /\ firstBegin = 0
    /\ everHanded = {}
    /\ reconnects = 0
    /\ startedAfterClose = FALSE
    /\ delays = <<>>
    /\ contracts = {}
    /\ active = {}
    /\ nextCid = 1
    /\ deliveries = <<>>
    /\ sh = <<>>
    /\ rh = <<>>
    /\ chain = [r \in RequestIds |-> "none"]
    /\ submissions = {}
    /\ lastRejected = NoClaim

\* The daemon has been started and its onUpdate has not been called.
InitNoUpdate ==
    /\ events = <<>>
    /\ loopPos = 1
    /\ loopState = "returned"
    /\ invocations = <<>>

\* No function has been applied.
InitNoCall ==
    /\ input = <<>>
    /\ output = <<>>

Init ==
    /\ InitStreamAndLedger
    /\ InitNoUpdate
    /\ InitNoCall

\* onUpdate is called with a Transaction update holding any events.
InitOnUpdate ==
    /\ InitStreamAndLedger
    /\ InitNoCall
    /\ events \in UpdateEvents
    /\ loopPos = 1
    /\ loopState = "running"
    /\ invocations = <<>>

NextStream ==
    \/ \E kind \in UpdateKinds : LedgerAppend(kind)
    \/ WsOpen
    \/ \E what \in HandlerOutcomes : WsMessage(what)
    \/ WsCloseEvent
    \/ TimerFires
    \/ \E n \in 0..MaxUpdates, k \in 0..MaxUpdates, what \in HandlerOutcomes,
          cb \in CallbackOutcomes : PollResponse(n, k, what, cb)
    \/ \E cb \in CallbackOutcomes : PollError(cb)
    \/ PollBackoffDone
    \/ Close
    \/ Crash
    \/ MainStart

SpecStream == Init /\ [][NextStream]_vars

NextLifecycle ==
    \/ \E rid \in RequestIds : RequestEvmDeposit(rid)
    \/ \E cid \in DOMAIN deliveries : SignerOnUpdate(cid)
    \/ \E i \in DOMAIN sh, ok \in BOOLEAN : SignerSign(i, ok)
    \/ \E i \in DOMAIN sh, seen \in {"success", "reverted", "timeout"} : SignerPoll(i, seen)
    \/ \E i \in DOMAIN sh, ok \in BOOLEAN : SignerAttest(i, ok)
    \/ \E cid \in DOMAIN deliveries : RelayerOnUpdate(cid)
    \/ \E i \in DOMAIN rh : RelayerLookup(i)
    \/ \E i \in DOMAIN rh, ok \in BOOLEAN : RelayerBroadcast(i, ok)
    \/ \E i \in DOMAIN rh, ok \in BOOLEAN : RelayerClaim(i, ok)
    \/ \E rid \in RequestIds, status \in {"success", "reverted"} : ChainMines(rid, status)

SpecLifecycle == Init /\ [][NextLifecycle]_vars

NextChoices ==
    \/ \E rid \in TestRequestIds : TestRequestEvmDeposit(rid)
    \/ \E rid \in TestRequestIds, out \in {"00", "01"}, key \in TestKeys :
          TestProvideEvmOutcomeSig(rid, out, key)
    \/ \E p \in DOMAIN deliveries, o \in DOMAIN deliveries : TestClaimEvmDeposit(p, o)

SpecChoices == Init /\ [][NextChoices]_vars

\* The Relayer's signature handler on evidence posted by SignEvmTx commands.
NextRelayer ==
    \/ \E rid \in RequestIds : TestRequestEvmDeposit(rid)
    \/ \E rid \in RequestIds, key \in TestSigKeys : TestSignEvmTx(rid, key)
    \/ \E cid \in DOMAIN deliveries : RelayerOnUpdate(cid)
    \/ \E i \in DOMAIN rh : RelayerLookup(i)
    \/ \E i \in DOMAIN rh, ok \in BOOLEAN : RelayerBroadcast(i, ok)
    \/ \E rid \in RequestIds, status \in {"success", "reverted"} : ChainMines(rid, status)

SpecRelayer == Init /\ [][NextRelayer]_vars

\* Intents of the same content anchored more than once, and both daemons
\* handling every event once their calls succeed.
NextCredit ==
    \/ \E rid \in RequestIds : RequestSameIntent(rid)
    \/ \E cid \in DOMAIN deliveries : SignerOnUpdate(cid)
    \/ \E i \in DOMAIN sh : SignerSign(i, TRUE)
    \/ \E i \in DOMAIN sh : SignerPoll(i, "success")
    \/ \E i \in DOMAIN sh : SignerAttest(i, TRUE)
    \/ \E cid \in DOMAIN deliveries : RelayerOnUpdate(cid)
    \/ \E i \in DOMAIN rh : RelayerLookup(i)
    \/ \E i \in DOMAIN rh : RelayerBroadcast(i, TRUE)
    \/ \E i \in DOMAIN rh : RelayerClaim(i, TRUE)
    \/ \E rid \in RequestIds : ChainMines(rid, "success")

SpecCredit == Init /\ [][NextCredit]_vars

\* The Relayer's outcome handler on anchors and outcome evidence posted by
\* RequestEvmDeposit and ProvideEvmOutcomeSig commands.
NextClaim ==
    \/ \E rid \in TestRequestIds : TestRequestEvmDeposit(rid)
    \/ \E rid \in TestRequestIds, out \in {"00", "01"}, key \in TestKeys :
          TestProvideEvmOutcomeSig(rid, out, key)
    \/ \E cid \in DOMAIN deliveries : RelayerOnUpdate(cid)
    \/ \E i \in DOMAIN rh : RelayerLookup(i)
    \/ \E i \in DOMAIN rh, ok \in BOOLEAN : RelayerClaim(i, ok)

SpecClaim == Init /\ [][NextClaim]_vars

NextOnUpdate ==
    \/ OnUpdateEvent
    \/ OnUpdateReturn
    \/ \E n \in DOMAIN invocations : HandlerSettles(n)

SpecOnUpdate == InitOnUpdate /\ [][NextOnUpdate]_vars


(***************************************************************************)
(* Part IV.  Pure functions                                                *)
(*                                                                         *)
(* Hex and decimal strings are as in the section on strings.               *)
(***************************************************************************)
\* the result of a function that has not been applied
NoValue == [none |-> TRUE]

----
\* The CantonEvmParams of the anchors: nonce and argument vary.
EvmParams(nonce, arg) ==
    [to |-> <<1, 1>>, functionSignature |-> "transfer(address,uint256)",
     args |-> <<arg>>, value |-> <<0>>, nonce |-> nonce, gasLimit |-> <<1, 0>>,
     maxFeePerGas |-> <<1>>, maxPriorityFee |-> <<1>>, chainId |-> <<1>>]

\* buildCalldata: the selector of the function signature, then the arguments
\* concatenated.
buildCalldata(functionSignature, args) == <<functionSignature, args>>

\* The bits of the significand of a Number: 53 in the code, scaled down.
NumberMantissaBits == 4

RECURSIVE NumberUlp(_, _)
\* the distance between the Numbers around n
NumberUlp(n, step) ==
    IF n \div step < 2 ^ NumberMantissaBits THEN step ELSE NumberUlp(n, 2 * step)

\* Number(BigInt(..)) taken for the integer itself
NumberOfBigIntExact(n) == n

\* Number(BigInt(..)): the Number nearest to the integer, ties to the even
\* significand.
NumberOfBigInt(n) ==
    LET step == NumberUlp(n, 1)
        q == n \div step
        rest == n % step
    IN  IF 2 * rest < step THEN q * step
        ELSE IF 2 * rest > step THEN (q + 1) * step
        ELSE IF q % 2 = 0 THEN q * step ELSE (q + 1) * step

\* The transaction object both serializations are given.
TxFields(evmParams) ==
    [chainId |-> NumberOfBigInt(HexToNat(evmParams.chainId)),
     nonce |-> NumberOfBigInt(HexToNat(evmParams.nonce)),
     maxPriorityFeePerGas |-> HexToNat(evmParams.maxPriorityFee),
     maxFeePerGas |-> HexToNat(evmParams.maxFeePerGas),
     gas |-> HexToNat(evmParams.gasLimit),
     to |-> evmParams.to,
     value |-> HexToNat(evmParams.value),
     data |-> buildCalldata(evmParams.functionSignature, evmParams.args)]

\* serializeUnsignedTx(evmParams): serializeTransaction of the fields
serializeUnsignedTx(evmParams) == [unsigned |-> TxFields(evmParams)]

\* reconstructSignedTx(evmParams, {r, s, v}): serializeTransaction of the
\* fields and the signature; r and s are encoded as integers, v as yParity.
reconstructSignedTx(evmParams, sig) ==
    [tx |-> TxFields(evmParams), r |-> HexToNat(sig.r), s |-> HexToNat(sig.s),
     yParity |-> sig.v]

\* The Ledger API's JSON for a Daml Int: a number, or its decimal text.
JsonEncodings == {"number", "string"}

JsonInt(n, enc) == IF enc = "number" THEN [num |-> n] ELSE [str |-> DecimalDigits(n)]

\* Number(x) of a JSON number or of a decimal text
Number(j) == IF "num" \in DOMAIN j THEN j.num ELSE DecimalToNat(j.str)

\* A Relayer that takes v for Ethereum's 27/28.
RelayerSignatureLegacyV(args) == [r |-> args.r, s |-> args.s, v |-> Number(args.v) + 27]

\* handleEcdsaSignature: r, s, v from the evidence's createArgument
RelayerSignature(args) == [r |-> args.r, s |-> args.s, v |-> Number(args.v)]

\* SignEvmTx { requestId, r, s, v } creates EcdsaSignature with r, s, v; its
\* created event carries them as JSON.
SignEvmTxCreates(enc) ==
    /\ output.evidence = NoValue
    /\ output' = [output EXCEPT !.evidence =
                      [r |-> input.r, s |-> input.s, v |-> JsonInt(input.v, enc)]]
    /\ UNCHANGED <<input, streamVars, lifeVars, loopVars>>

\* handlePendingEvmDeposit, phase 2: the transaction whose hash is polled for
SignerReconstructs ==
    /\ output.signerTx = NoValue
    /\ output' = [output EXCEPT !.signerTx =
                      reconstructSignedTx(input.evmParams,
                                          [r |-> input.r, s |-> input.s, v |-> input.v])]
    /\ UNCHANGED <<input, streamVars, lifeVars, loopVars>>

\* handleEcdsaSignature: the transaction that is broadcast
RelayerReconstructs ==
    /\ output.evidence # NoValue
    /\ output.relayerTx = NoValue
    /\ output' = [output EXCEPT !.relayerTx =
                      reconstructSignedTx(input.evmParams, RelayerSignature(output.evidence))]
    /\ UNCHANGED <<input, streamVars, lifeVars, loopVars>>

\* An anchor and the signature the Signer made for it.
InitSignedTx ==
    /\ InitStreamAndLedger
    /\ InitNoUpdate
    /\ input \in {[evmParams |-> EvmParams(n, a), r |-> r, s |-> s, v |-> v] :
                    n \in HexStrings(1), a \in HexStrings(1),
                    r \in HexStrings(MaxHexLen), s \in HexStrings(MaxHexLen),
                    v \in {0, 1}}
    /\ output = [evidence |-> NoValue, signerTx |-> NoValue, relayerTx |-> NoValue]

NextSignedTx ==
    \/ \E enc \in JsonEncodings : SignEvmTxCreates(enc)
    \/ SignerReconstructs
    \/ RelayerReconstructs

SpecSignedTx == InitSignedTx /\ [][NextSignedTx]_vars

----
\* Request ids.  A text is the sequence of its UTF-8 bytes; a hex string is
\* the sequence of its digits.

\* the widths, in hex digits, of an address, a uint256 and a uint32
AddressHexWidth == 40
WordHexWidth == 64
Uint32HexWidth == 8

Zeros(n) == [i \in 1..n |-> 0]

\* String.prototype.padStart(width, "0"): a string of the width or longer is
\* returned as it is.
padStart(h, width) ==
    IF Len(h) >= width THEN h ELSE Zeros(width - Len(h)) \o h

RECURSIVE textToHex(_)
\* Buffer.from(s, "utf8").toString("hex")
textToHex(s) ==
    IF s = <<>> THEN <<>>
    ELSE <<s[1] \div 16, s[1] % 16>> \o textToHex(Tail(s))

RECURSIVE NatToHex(_)
\* n.toString(16)
NatToHex(n) ==
    IF n < 16 THEN <<n>> ELSE Append(NatToHex(n \div 16), n % 16)

uint32ToHex(n) == padStart(NatToHex(n), Uint32HexWidth)

RECURSIVE join(_)
\* p.args.join("")
join(args) ==
    IF args = <<>> THEN <<>> ELSE args[1] \o join(Tail(args))

\* packParams with nonce and value in each other's place
packParamsNonceFirst(p) ==
    padStart(p.to, AddressHexWidth)
        \o textToHex(p.functionSignature)
        \o join(p.args)
        \o padStart(p.nonce, WordHexWidth)
        \o padStart(p.value, WordHexWidth)
        \o padStart(p.gasLimit, WordHexWidth)
        \o padStart(p.maxFeePerGas, WordHexWidth)
        \o padStart(p.maxPriorityFee, WordHexWidth)
        \o padStart(p.chainId, WordHexWidth)

\* packParams: the fields at their widths, concatenated.  No field is
\* examined before it is padded.
packParams(p) ==
    padStart(p.to, AddressHexWidth)
        \o textToHex(p.functionSignature)
        \o join(p.args)
        \o padStart(p.value, WordHexWidth)
        \o padStart(p.nonce, WordHexWidth)
        \o padStart(p.gasLimit, WordHexWidth)
        \o padStart(p.maxFeePerGas, WordHexWidth)
        \o padStart(p.maxPriorityFee, WordHexWidth)
        \o padStart(p.chainId, WordHexWidth)

\* keccak256 of the bytes a hex string stands for.  The hash is not
\* computed: two digests are equal exactly when their preimages are, which
\* is the collision resistance the request id relies on.
keccak256(hex) == [keccak |-> hex]

\* the texts "ECDSA", "ethereum" and "eip155:"
TextECDSA == <<69, 67, 68, 83, 65>>
TextEthereum == <<101, 116, 104, 101, 114, 101, 117, 109>>
TextEip155 == <<101, 105, 112, 49, 53, 53, 58>>

\* computeRequestId of the TypeScript side: viem's keccak256 returns the
\* digest as a Hex, the digits after the prefix "0x".
packed(sender, evmParams, caip2Id, keyVersion, path) ==
    textToHex(sender)
        \o packParams(evmParams)
        \o textToHex(caip2Id)
        \o uint32ToHex(keyVersion)
        \o textToHex(path)
        \o textToHex(TextECDSA)
        \o textToHex(TextEthereum)

computeRequestId(sender, evmParams, caip2Id, keyVersion, path) ==
    [prefix |-> "0x",
     digest |-> keccak256(packed(sender, evmParams, caip2Id, keyVersion, path))]

\* tsRequestId.slice(2)
SliceHexPrefix(hex) == hex.digest

\* Crypto.daml.  padHex, textToHex, uint32ToHex and chainIdToDecimalText are
\* as their signatures describe them.
DamlPadHex(h, bytes) ==
    IF Len(h) >= 2 * bytes THEN h ELSE Zeros(2 * bytes - Len(h)) \o h

DamlTextToHex(s) ==
    [i \in 1..(2 * Len(s)) |->
        IF i % 2 = 1 THEN s[(i + 1) \div 2] \div 16 ELSE s[i \div 2] % 16]

DamlUint32ToHex(n) == DamlPadHex(NatToHex(n), 4)

\* the text of a decimal digit is its ASCII code
chainIdToDecimalText(h) ==
    [i \in 1..Len(DecimalDigits(HexToNat(h))) |->
        48 + DecimalDigits(HexToNat(h))[i]]

RECURSIVE DamlConcat(_)
\* foldl (<>) "" p.args
DamlConcat(args) ==
    IF args = <<>> THEN <<>>
    ELSE DamlConcat(SubSeq(args, 1, Len(args) - 1)) \o args[Len(args)]

DamlPackParams(p) ==
    DamlPadHex(p.to, 20)
        \o DamlTextToHex(p.functionSignature)
        \o DamlConcat(p.args)
        \o DamlPadHex(p.value, 32)
        \o DamlPadHex(p.nonce, 32)
        \o DamlPadHex(p.gasLimit, 32)
        \o DamlPadHex(p.maxFeePerGas, 32)
        \o DamlPadHex(p.maxPriorityFee, 32)
        \o DamlPadHex(p.chainId, 32)

DamlComputeRequestId(sender, evmParams, caip2Id, keyVersion, path) ==
    keccak256(DamlTextToHex(sender)
                \o DamlPackParams(evmParams)
                \o DamlTextToHex(caip2Id)
                \o DamlUint32ToHex(keyVersion)
                \o DamlTextToHex(path)
                \o DamlTextToHex(TextECDSA)
                \o DamlTextToHex(TextEthereum))

\* the key version RequestEvmDeposit passes
LedgerKeyVersion == 1

LedgerCaip2Id(evmParams) == TextEip155 \o chainIdToDecimalText(evmParams.chainId)

\* RequestEvmDeposit: the request id stored on the PendingEvmDeposit, from
\* the requester's party text, the path and the evmParams.
RequestEvmDepositRequestId(requester, path, evmParams) ==
    DamlComputeRequestId(requester, evmParams, LedgerCaip2Id(evmParams),
                         LedgerKeyVersion, path)

\* The inputs: fields at their width, and fields shorter than it.
AddressValues ==
    {padStart(h, AddressHexWidth) : h \in HexStrings(MaxHexLen)} \cup HexStrings(1)

WordValues ==
    {padStart(h, WordHexWidth) : h \in HexStrings(MaxHexLen)} \cup HexStrings(1)

Word(n) == padStart(<<n>>, WordHexWidth)

ArgLists ==
    {<<Word(d)>> : d \in HexDigitsUsed} \cup {<<Word(1), Word(d)>> : d \in HexDigitsUsed}

\* the party texts "A" and "B", the paths "m" and "m/0"
Senders == {<<65>>, <<66>>}
Paths == {<<109>>, <<109, 47, 48>>}

KeyVersions == {1, 2}

Caip2Ids == {TextEip155 \o chainIdToDecimalText(c) : c \in WordValues}

\* the function signature "f()"
RequestIdParams(to, args, chainId) ==
    [to |-> to, functionSignature |-> <<102, 40, 41>>, args |-> args,
     value |-> Word(0), nonce |-> Word(1), gasLimit |-> Word(1),
     maxFeePerGas |-> Word(1), maxPriorityFee |-> Word(1), chainId |-> chainId]

\* a field of the evmParams has the width packParams pads it to
CanonicalWidths(p) ==
    /\ Len(p.to) = AddressHexWidth
    /\ \A f \in {"value", "nonce", "gasLimit", "maxFeePerGas", "maxPriorityFee",
                 "chainId"} : Len(p[f]) = WordHexWidth

\* The TypeScript side computes the request id of the inputs.
TsComputesRequestId ==
    /\ output.ts = NoValue
    /\ output' = [output EXCEPT !.ts =
                      computeRequestId(input.sender, input.evmParams, input.caip2Id,
                                       input.keyVersion, input.path)]
    /\ UNCHANGED <<input, streamVars, lifeVars, loopVars>>

\* RequestEvmDeposit is exercised with the sender, path and evmParams.
LedgerComputesRequestId ==
    /\ output.ledger = NoValue
    /\ output' = [output EXCEPT !.ledger =
                      RequestEvmDepositRequestId(input.sender, input.path,
                                                 input.evmParams)]
    /\ UNCHANGED <<input, streamVars, lifeVars, loopVars>>

\* One input is given another value, the others are kept; the request id
\* computed before is remembered.
ChangeInput(f, v) ==
    /\ output.ts # NoValue
    /\ output.changed = "none"
    /\ IF f \in {"to", "nonce", "chainId", "args"}
       THEN /\ v # input.evmParams[f]
            /\ input' = [input EXCEPT !.evmParams[f] = v]
       ELSE /\ v # input[f]
            /\ input' = [input EXCEPT ![f] = v]
    /\ output' = [ts |-> NoValue, ledger |-> NoValue, before |-> output.ts,
                  changed |-> f]
    /\ UNCHANGED <<streamVars, lifeVars, loopVars>>

InputValues(f) ==
    CASE f = "to" -> AddressValues
      [] f \in {"nonce", "chainId"} -> WordValues
      [] f = "args" -> ArgLists
      [] f = "sender" -> Senders
      [] f = "caip2Id" -> Caip2Ids
      [] f = "keyVersion" -> KeyVersions
      [] f = "path" -> Paths

InputNames ==
    {"to", "nonce", "chainId", "args", "sender", "caip2Id", "keyVersion", "path"}

\* A deposit request as the tests make it: the chain context is the one of
\* the chainId, the key version is 1.
InitRequestId ==
    /\ InitStreamAndLedger
    /\ InitNoUpdate
    /\ input \in {[sender |-> s, evmParams |-> RequestIdParams(to, args, chainId),
                   caip2Id |-> TextEip155 \o chainIdToDecimalText(chainId),
                   keyVersion |-> 1, path |-> p] :
                    s \in Senders, to \in AddressValues, args \in ArgLists,
                    chainId \in WordValues, p \in Paths}
    /\ output = [ts |-> NoValue, ledger |-> NoValue, before |-> NoValue,
                 changed |-> "none"]

NextRequestId ==
    \/ TsComputesRequestId
    \/ LedgerComputesRequestId
    \/ \E f \in InputNames : \E v \in InputValues(f) : ChangeInput(f, v)

SpecRequestId == InitRequestId /\ [][NextRequestId]_vars

----
\* Child keys.  The order of the curve is scaled down; epsilon, the keccak256
\* of the derivation path, is any 256-bit value, here any value below twice
\* the order.
CURVE_ORDER == 7

\* the width, in hex digits, of a private key
KeyHexWidth == 64

\* deriveChildPrivateKey: (rootKey + eps) mod n as 64 hex digits; the result
\* is returned whatever it is.
deriveChildPrivateKey(rootKey, eps) ==
    padStart(NatToHex((((rootKey + eps) % CURVE_ORDER) + CURVE_ORDER) % CURVE_ORDER),
             KeyHexWidth)

\* signEvmTxHash by its numbers: secp256k1.sign accepts the private keys 1 .. n-1 and throws for any other.
secp256k1Sign(privateKey, txHash) ==
    IF HexToNat(privateKey) \in 1..(CURVE_ORDER - 1)
    THEN [signed |-> txHash, with |-> HexToNat(privateKey)]
    ELSE [threw |-> "invalid private key"]

\* handlePendingEvmDeposit derives the child key of the request ...
SignerDerivesChildKey ==
    /\ output.childPrivateKey = NoValue
    /\ output' = [output EXCEPT !.childPrivateKey =
                      deriveChildPrivateKey(input.rootPrivateKey, input.epsilon)]
    /\ UNCHANGED <<input, streamVars, lifeVars, loopVars>>

\* ... and signs the transaction hash with it.
SignerSignsWithChildKey ==
    /\ output.childPrivateKey # NoValue
    /\ output.signature = NoValue
    /\ output' = [output EXCEPT !.signature =
                      secp256k1Sign(output.childPrivateKey, input.txHash)]
    /\ UNCHANGED <<input, streamVars, lifeVars, loopVars>>

InitDerive ==
    /\ InitStreamAndLedger
    /\ InitNoUpdate
    /\ input \in [rootPrivateKey : 1..(CURVE_ORDER - 1),
                  epsilon : 0..(2 * CURVE_ORDER - 1),
                  txHash : HexStrings(1)]
    /\ output = [childPrivateKey |-> NoValue, signature |-> NoValue]

NextDerive ==
    \/ SignerDerivesChildKey
    \/ SignerSignsWithChildKey

SpecDerive == InitDerive /\ [][NextDerive]_vars

----
\* Child public keys.  A point of the curve is the multiple of the generator
\* it is: point k is k x G, and point 0 is the point at infinity.

\* secp256k1.getPublicKey(privateKey): the point of a private key in
\* 1 .. n-1; any other key is rejected.
getPublicKey(privateKey) ==
    IF HexToNat(privateKey) \in 1..(CURVE_ORDER - 1)
    THEN [point |-> HexToNat(privateKey)]
    ELSE [threw |-> "invalid private key"]

\* the root public key of a root private key
RootPublicKey(rootKey) == [point |-> rootKey]

\* deriveChildPublicKey: rootPublicKeyPoint + epsilon x G
deriveChildPublicKey(rootPubKey, eps) ==
    [point |-> (rootPubKey.point + eps) % CURVE_ORDER]

\* publicKeyToEthAddress: the last 20 bytes of the keccak256 of the point's
\* coordinates.
publicKeyToEthAddress(pubKey) ==
    IF "point" \in DOMAIN pubKey THEN [address |-> keccak256(pubKey.point)] ELSE pubKey

\* deriveDepositAddress: the address of the derived child public key
deriveDepositAddress(rootPubKey, eps) ==
    publicKeyToEthAddress(deriveChildPublicKey(rootPubKey, eps))

\* The address of the key the Signer signs with: that of the public key of
\* the child private key.
SignerKeyAddress ==
    /\ output.childPrivateKey # NoValue
    /\ output.signerAddress = NoValue
    /\ output' = [output EXCEPT !.signerAddress =
                      publicKeyToEthAddress(getPublicKey(output.childPrivateKey))]
    /\ UNCHANGED <<input, streamVars, lifeVars, loopVars>>

\* The Initiator derives the deposit address from the root public key.
InitiatorDerivesAddress ==
    /\ output.depositAddress = NoValue
    /\ output' = [output EXCEPT !.depositAddress =
                      deriveDepositAddress(RootPublicKey(input.rootPrivateKey),
                                           input.epsilon)]
    /\ UNCHANGED <<input, streamVars, lifeVars, loopVars>>

InitChildPublic ==
    /\ InitStreamAndLedger
    /\ InitNoUpdate
    /\ input \in [rootPrivateKey : 1..(CURVE_ORDER - 1),
                  epsilon : 0..(2 * CURVE_ORDER - 1)]
    /\ output = [childPrivateKey |-> NoValue, signerAddress |-> NoValue,
                 depositAddress |-> NoValue]

NextChildPublic ==
    \/ SignerDerivesChildKey
    \/ SignerKeyAddress
    \/ InitiatorDerivesAddress

SpecChildPublic == InitChildPublic /\ [][NextChildPublic]_vars

----
\* Signed transactions parsed back.  A signature is the (r, s, v) the Signer
\* returns; what it was made over and with is kept next to it, and it
\* recovers to the address of that key for that hash and these numbers only.

\* the address recovered from a parsed signed transaction
recoverAddress(signedTx) ==
    IF /\ keccak256([unsigned |-> signedTx.tx]) = output.signedHash
       /\ signedTx.r = HexToNat(output.signature.r)
       /\ signedTx.s = HexToNat(output.signature.s)
       /\ signedTx.yParity = output.signature.v
    THEN publicKeyToEthAddress(getPublicKey(input.childKey))
    ELSE [address |-> "of another key"]

\* parseTransaction of the signed serialization, and the signer recovered
\* from it
parseSignedTx(signedTx) ==
    [fields |-> signedTx.tx, signer |-> recoverAddress(signedTx)]

\* handlePendingEvmDeposit: the hash of the unsigned serialization is signed
\* with the child key.
SignerSignsIntent(r, s, v) ==
    /\ output.signature = NoValue
    /\ output' = [output EXCEPT
                      !.signedHash = keccak256(serializeUnsignedTx(input.evmParams)),
                      !.signature = [r |-> r, s |-> s, v |-> v]]
    /\ UNCHANGED <<input, streamVars, lifeVars, loopVars>>

\* The signature is attached to the intent.
AttachesSignature ==
    /\ output.signature # NoValue
    /\ output.signedTx = NoValue
    /\ output' = [output EXCEPT !.signedTx =
                      reconstructSignedTx(input.evmParams, output.signature)]
    /\ UNCHANGED <<input, streamVars, lifeVars, loopVars>>

\* The signed transaction is parsed back.
ParsesBack ==
    /\ output.signedTx # NoValue
    /\ output.parsed = NoValue
    /\ output' = [output EXCEPT !.parsed = parseSignedTx(output.signedTx)]
    /\ UNCHANGED <<input, streamVars, lifeVars, loopVars>>

InitRoundTrip ==
    /\ InitStreamAndLedger
    /\ InitNoUpdate
    /\ input \in {[evmParams |-> EvmParams(n, a),
                   childKey |-> padStart(NatToHex(k), KeyHexWidth)] :
                    n \in HexStrings(MaxHexLen), a \in HexStrings(1),
                    k \in 1..(CURVE_ORDER - 1)}
    /\ output = [signedHash |-> NoValue, signature |-> NoValue,
                 signedTx |-> NoValue, parsed |-> NoValue]

NextRoundTrip ==
    \/ \E r \in HexStrings(MaxHexLen), s \in HexStrings(MaxHexLen), v \in {0, 1} :
           SignerSignsIntent(r, s, v)
    \/ AttachesSignature
    \/ ParsesBack

SpecRoundTrip == InitRoundTrip /\ [][NextRoundTrip]_vars


----
\* Preimages.  Two tuples of inputs, one after the other, are given to the
\* function, and the two strings it builds are kept.

\* the text "f()", and the same followed by 32 NUL characters
FunctionSignatures == {<<102, 40, 41>>, <<102, 40, 41>> \o Zeros(32)}

\* a chain context, and the same followed by the four bytes of key version 1
PreimageCaip2Ids == {TextEip155 \o <<49>>, TextEip155 \o <<49>> \o <<0, 0, 0, 1>>}

\* a path, and the same preceded by the four bytes of key version 1
PreimagePaths == {<<109>>, <<0, 0, 0, 1>> \o <<109>>}

PreimageArgLists == {<<Word(0), Word(1)>>, <<Word(1)>>, <<Word(0)>>}

PreimageTuples ==
    {[sender |-> s,
      evmParams |-> [RequestIdParams(Zeros(AddressHexWidth), a, Word(1))
                        EXCEPT !.functionSignature = f],
      caip2Id |-> c, keyVersion |-> 1, path |-> p] :
        s \in Senders, f \in FunctionSignatures, a \in PreimageArgLists,
        c \in PreimageCaip2Ids, p \in PreimagePaths}

\* computeRequestId builds the string it hashes.
PacksPreimage ==
    /\ output.packed = NoValue
    /\ output' = [output EXCEPT !.packed =
                      packed(input.sender, input.evmParams, input.caip2Id,
                             input.keyVersion, input.path)]
    /\ UNCHANGED <<input, streamVars, lifeVars, loopVars>>

\* The function is called with another tuple.
AnotherTuple(t) ==
    /\ output.packed # NoValue
    /\ output.before = NoValue
    /\ t # input
    /\ input' = t
    /\ output' = [packed |-> NoValue, before |-> output.packed]
    /\ UNCHANGED <<streamVars, lifeVars, loopVars>>

InitPreimage ==
    /\ InitStreamAndLedger
    /\ InitNoUpdate
    /\ input \in PreimageTuples
    /\ output = [packed |-> NoValue, before |-> NoValue]

NextPreimage ==
    \/ PacksPreimage
    \/ \E t \in PreimageTuples : AnotherTuple(t)

SpecPreimage == InitPreimage /\ [][NextPreimage]_vars

----
\* Derivation strings.

\* "sig.network v2.0.0 epsilon derivation"
EPSILON_DERIVATION_PREFIX ==
    <<115, 105, 103, 46, 110, 101, 116, 119, 111, 114, 107, 32, 118,
      50, 46, 48, 46, 48, 32, 101, 112, 115, 105, 108, 111, 110,
      32, 100, 101, 114, 105, 118, 97, 116, 105, 111, 110>>

\* ":"
Colon == <<58>>

\* `${EPSILON_DERIVATION_PREFIX}:${caip2Id}:${predecessorId}:${path}`
derivationPath(caip2Id, predecessorId, path) ==
    EPSILON_DERIVATION_PREFIX \o Colon \o caip2Id \o Colon \o predecessorId
        \o Colon \o path

\* epsilon = keccak256(toBytes(derivationPath))
epsilon(caip2Id, predecessorId, path) ==
    keccak256(derivationPath(caip2Id, predecessorId, path))

\* the characters "a" and ":" the components are made of
TextCharsUsed == {97, 58}

Texts == UNION {SeqsOfLen(TextCharsUsed, n) : n \in 1..MaxTextLen}

\* the chain contexts "eip155:1" and "eip155:11"
DerivationCaip2Ids == {TextEip155 \o <<49>>, TextEip155 \o <<49, 49>>}

\* deriveChildPrivateKey computes epsilon from the derivation context.
DerivesEpsilon ==
    /\ output.epsilon = NoValue
    /\ output' = [output EXCEPT !.epsilon =
                      epsilon(input.caip2Id, input.predecessorId, input.path)]
    /\ UNCHANGED <<input, streamVars, lifeVars, loopVars>>

\* The function is called with another derivation context.
AnotherContext(c, pred, path) ==
    /\ output.epsilon # NoValue
    /\ output.before = NoValue
    /\ <<c, pred, path>> # <<input.caip2Id, input.predecessorId, input.path>>
    /\ input' = [caip2Id |-> c, predecessorId |-> pred, path |-> path]
    /\ output' = [epsilon |-> NoValue, before |-> output.epsilon]
    /\ UNCHANGED <<streamVars, lifeVars, loopVars>>

InitDerivationPath ==
    /\ InitStreamAndLedger
    /\ InitNoUpdate
    /\ input \in [caip2Id : DerivationCaip2Ids, predecessorId : Texts, path : Texts]
    /\ output = [epsilon |-> NoValue, before |-> NoValue]

NextDerivationPath ==
    \/ DerivesEpsilon
    \/ \E c \in DerivationCaip2Ids, pred \in Texts, path \in Texts :
           AnotherContext(c, pred, path)

SpecDerivationPath == InitDerivationPath /\ [][NextDerivationPath]_vars

(***************************************************************************)
(* Properties of the stream client                                         *)
(***************************************************************************)
HandedBefore(i, q) == \E j \in 1..(i - 1) : handed[j].off = q

CarriesOffset(off) == extractOffset(ledger[off], off) # NoOffset

\* C3: within one client's lifetime every update after the starting offset is
\* handed to onUpdate exactly once: no offset is handed twice, and no update
\* is passed over, whether or not an offset can be extracted from it.
C3_ExactlyOnce ==
    \A i \in DOMAIN handed :
        /\ \A j \in DOMAIN handed : j # i => handed[j].off # handed[i].off
        /\ \A q \in (begin0 + 1)..(handed[i].off - 1) : HandedBefore(i, q)

\* C4: a subscription resumed with beginExclusive = X+5 after the event at
\* X+5 was received hands over nothing at or below X+5, never hands an
\* offset-carrying event a second time, and passes over no later event.
C4_NoRedeliverNoSkip ==
    \A i \in DOMAIN handed :
        /\ handed[i].off > handed[i].begin
        /\ handed[i].begin >= begin0
        /\ CarriesOffset(handed[i].off) =>
              \A j \in DOMAIN handed : j # i => handed[j].off # handed[i].off
        /\ \A q \in (begin0 + 1)..(handed[i].off - 1) : HandedBefore(i, q)

\* The case of C4: the event at X+5 was received on one subscription, and the
\* event at X+6 on a later subscription that began at X+5.
C4_Witness ==
    \E i \in DOMAIN handed :
        /\ i > 1
        /\ handed[i].begin = handed[i - 1].off
        /\ handed[i - 1].begin < handed[i].begin
        /\ handed[i].off = handed[i].begin + 1

\* C5: a daemon that stops and starts again resumes exactly after its last
\* handled event: every update between the first starting offset and the
\* cursor has been handed to the handler by some run of the daemon.
C5_NoEventLost ==
    procUp => \A q \in (firstBegin + 1)..currentOffset : q \in everHanded

\* C6: once close() has returned, onUpdate is never invoked again.
C6_NoHandlerAfterClose == ~handedAfterClose

\* C13 (as amended): the attempt counter never exceeds maxReconnectAttempts and
\* a pending reconnect timer means at least one counted attempt; the polling
\* loop runs only after the counter reached maxReconnectAttempts, with no
\* socket and no reconnect timer left, and its request in flight begins at the
\* tracked offset.
C13_BoundedConsecutiveAttempts ==
    /\ reconnectAttempt \in 0..MaxAttempts
    /\ reconnectTimer => (reconnectAttempt >= 1 /\ polling = "off")
    /\ polling # "off" =>
          /\ sock = "none"
          /\ ws = "null"
          /\ ~reconnectTimer
          /\ reconnectAttempt = MaxAttempts
    /\ polling = "inflight" => pollBegin = currentOffset

\* The client fell back to polling after the attempts ran out, having received
\* updates before: the request in flight begins at the advanced cursor.
C13_Witness ==
    /\ polling = "inflight"
    /\ ~closed
    /\ reconnectAttempt = MaxAttempts
    /\ reconnects >= MaxAttempts
    /\ currentOffset > begin0
    /\ pollBegin = currentOffset

\* C13 (as stated): a client makes at most maxReconnectAttempts reconnections
\* in its lifetime, and once polling it has no socket and no reconnect timer.
C13_ReconnectionsBounded ==
    /\ reconnects <= MaxAttempts
    /\ polling # "off" => (sock = "none" /\ ~reconnectTimer)

\* C14: the polling loop, once started, ends only by close(): it is never
\* ended by an exception.
C14_PollingNeverStops == polling # "dead"

\* C15: the offsets of the updates handed to onUpdate by one client are
\* strictly increasing in the order of the invocations.
C15_OffsetOrder ==
    \A i \in DOMAIN handed, j \in DOMAIN handed : i < j => handed[i].off < handed[j].off

(***************************************************************************)
(* Properties of the deposit lifecycle                                     *)
(***************************************************************************)
SignerSubmissions == {x \in submissions : x.actor = "signer"}

\* C1: of the commands the Signer submits for one anchor creation event and
\* one choice, at most one is applied by the ledger, however often the event
\* is delivered.
C1_AtMostOneFollowUp ==
    \A x \in SignerSubmissions, y \in SignerSubmissions :
        (x.ev = y.ev /\ x.choice = y.choice /\ x.applied /\ y.applied) => x = y

\* C2: two submissions made by the same daemon for the same triggering event
\* and the same choice carry the same commandId.
C2_DeterministicCommandId ==
    \A x \in submissions, y \in submissions :
        (x.actor = y.actor /\ x.ev = y.ev /\ x.choice = y.choice) => x.cmdId = y.cmdId

PassedLookup(h) == h.pc \in {"broadcast", "claim"}

\* C7: two Relayer handler invocations for the same evidence event are never
\* both past the current-state lookup and about to broadcast or to claim.
C7_AtMostOnePassesLookup ==
    \A i \in DOMAIN rh, j \in DOMAIN rh :
        (i # j /\ rh[i].ev = rh[j].ev) => ~(PassedLookup(rh[i]) /\ PassedLookup(rh[j]))

Evidence == ByTemplate("EcdsaSignature") \cup ByTemplate("EvmTxOutcomeSignature")

Holdings == ByTemplate("Erc20Holding")

\* Contract ids are given in creation order: a was created before b.
CreatedBefore(a, b) == a.cid < b.cid

ClaimedBefore(rid, c) == \E h \in Holdings : h.rid = rid /\ CreatedBefore(h, c)

\* C8: per request id the contracts appear in the order anchor, signature
\* evidence, outcome evidence, holding: signature evidence has an earlier
\* anchor that was not yet claimed, outcome evidence has earlier signature
\* evidence, a holding has earlier outcome evidence, and no evidence is
\* created after the holding.
C8_LifecycleOrder ==
    /\ \A c \in ByTemplate("EcdsaSignature") :
          \E a \in ByTemplate("PendingEvmDeposit") :
              /\ a.rid = c.rid
              /\ CreatedBefore(a, c)
              /\ ~\E h \in Holdings : h.pend = a.cid /\ CreatedBefore(h, c)
    /\ \A c \in ByTemplate("EvmTxOutcomeSignature") :
          \E e \in ByTemplate("EcdsaSignature") : e.rid = c.rid /\ CreatedBefore(e, c)
    /\ \A h \in Holdings :
          \E c \in ByTemplate("EvmTxOutcomeSignature") : c.rid = h.rid /\ CreatedBefore(c, h)
    /\ \A c \in Evidence : ~ClaimedBefore(c.rid, c)

Finished(h) == h.pc \in {"done", "failed"}

\* C10: a Signer handler that posted signature evidence and has ended also
\* posted outcome evidence, with output "01" exactly when it saw a success
\* receipt.
C10_OutcomeFollowsSignature ==
    \A i \in DOMAIN sh :
        (sh[i].sigPosted /\ Finished(sh[i])) =>
            /\ sh[i].outPosted
            /\ (sh[i].out = "01") <=> (sh[i].seen = "success")

RelayerEnded(h) == h.pc \in {"done", "failed", "skipped"}

\* A created event its daemon dispatches on has not been handed to it yet.
Undelivered(c) ==
    /\ deliveries[c.cid] = 0
    /\ (c.tmpl = "PendingEvmDeposit" \/ RelayerHandlerFor(c.tmpl) # "none")

\* Nothing is left to do: every event was handed over, every handler has
\* ended, and no transaction is waiting to be mined.
Quiescent ==
    /\ \A c \in contracts : ~Undelivered(c)
    /\ \A i \in DOMAIN sh : Finished(sh[i])
    /\ \A i \in DOMAIN rh : RelayerEnded(rh[i])
    /\ \A rid \in RequestIds : chain[rid] # "pending"

\* No outbound call of any handler failed: ledger and chain were reachable.
NoFault ==
    /\ \A i \in DOMAIN sh : sh[i].pc # "failed"
    /\ \A i \in DOMAIN rh : ~rh[i].fault

\* C11: when both daemons have handled every event without a failed call and
\* the transaction of an anchor succeeded on the chain, the anchor is claimed.
C11_ClaimedWhenTxSucceeds ==
    (Quiescent /\ NoFault) =>
        \A a \in ByTemplate("PendingEvmDeposit") :
            chain[a.rid] = "success" => a.cid \notin active

\* The commands handler invocation i of the daemon submitted.
CommandsOf(actor, i) == {x \in submissions : x.cmdId[1] = actor /\ x.cmdId[2] = i}

ChoicesOf(actor, i) == {x.choice : x \in CommandsOf(actor, i)}

C17_RetriedAfterFault ==
    /\ \A i \in DOMAIN sh : ~(sh[i].pc = "failed")
    /\ \A i \in DOMAIN rh : ~(rh[i].pc = "failed" /\ rh[i].fault)

\* C19: a Relayer invocation whose lookup finds no active anchor with the
\* event's request id ends as skipped in that step, which changes neither the
\* chain nor the ledger nor the commands submitted; once skipped it takes no
\* further step.
C19_SkipsWithoutAnchor ==
    [][\A i \in DOMAIN rh :
          /\ (rh[i].pc = "query" /\ rh'[i] # rh[i] /\ MatchingAnchors(rh[i].rid) = {}) =>
                /\ rh'[i].pc = "skipped"
                /\ chain' = chain
                /\ submissions' = submissions
                /\ contracts' = contracts
                /\ active' = active
          /\ rh[i].pc = "skipped" => rh'[i] = rh[i]]_vars

\* A handleEvmTxOutcomeSignature invocation was skipped because the anchor of
\* its request id had been claimed already.
C19_Witness ==
    \E i \in DOMAIN rh :
        /\ rh[i].pc = "skipped"
        /\ rh[i].kind = "outcome"
        /\ \E h \in Holdings : h.rid = rh[i].rid

(***************************************************************************)
(* Properties of the update callback                                       *)
(***************************************************************************)
\* C16: when onUpdate is over, by returning or by throwing, a handler was
\* started for every created PendingEvmDeposit event of the update.
C16_EveryEventDispatched ==
    loopState \in {"returned", "thrown"} =>
        \A k \in DOMAIN events :
            Dispatches(events[k]) =>
                \E n \in DOMAIN invocations : invocations[n].ev = k

\* C18: a handler started on a payload that lacks a required field derives no
\* key, signs nothing and submits no command.
C18_NoActionOnMissingField ==
    \A n \in DOMAIN invocations :
        events[invocations[n].ev].missing # "none" =>
            /\ invocations[n].derived = "nothing"
            /\ ~invocations[n].signed
            /\ ~invocations[n].submitted

(***************************************************************************)
(* Properties of the Relayer's signature handler                           *)
(***************************************************************************)
\* the signature of the evidence is the derived child key's over the request
RecoversToChild(c) == c.sig = signEvmTxHash(c.rid)

\* C20: a signature handler whose evidence does not recover to the derived
\* child address of its request never gets its transaction onto the chain.
C20_NoBroadcastOfBadSignature ==
    \A i \in DOMAIN rh :
        (rh[i].kind = "sig" /\ ~RecoversToChild(ContractAt(rh[i].ev))) =>
            rh[i].pc # "done"

C21_StoppedAfterClose ==
    closed =>
        /\ ~reconnectTimer
        /\ ws = "null"
        /\ sock \in {"closing", "none"}
        /\ ~startedAfterClose

\* close() came during the polling fallback, after updates were handed over,
\* and the polling loop has ended.
C21_Witness ==
    /\ closed
    /\ reconnectAttempt >= MaxAttempts
    /\ ~reconnectTimer
    /\ polling = "off"
    /\ sock = "none"
    /\ Len(handed) >= 1
    /\ handed[Len(handed)].begin = pollBegin

\* C22: after close() no poll request is still in flight.
C22_NoPollInFlightAfterClose == closed => polling # "inflight"

(***************************************************************************)
(* Properties of the actors' capabilities                                  *)
(***************************************************************************)
ActorChoices(actor) ==
    IF actor = "signer" THEN {"SignEvmTx", "ProvideEvmOutcomeSig"}
    ELSE IF actor = "relayer" THEN {"ClaimEvmDeposit"}
    ELSE {}

\* C25: a transaction is on the chain only by a broadcast of a Relayer
\* signature handler, the Relayer's configuration holds no private key, the
\* Signer's commands are SignEvmTx and ProvideEvmOutcomeSig only and the
\* Relayer's are ClaimEvmDeposit only.
C25_SeparatedWrites ==
    /\ \A rid \in RequestIds :
          chain[rid] # "none" =>
              \E i \in DOMAIN rh :
                  rh[i].kind = "sig" /\ rh[i].rid = rid /\ rh[i].pc = "done"
    /\ ConfigKeys("relayer") = {}
    /\ \A x \in submissions : x.choice \in ActorChoices(x.actor)

\* every kind of write has happened: both Signer commands, the broadcast, the
\* mined transaction and the Relayer's claim
C25_Witness ==
    /\ {x.choice : x \in submissions} =
          {"SignEvmTx", "ProvideEvmOutcomeSig", "ClaimEvmDeposit"}
    /\ \E rid \in RequestIds : chain[rid] = "success"
    /\ Holdings # {}

(***************************************************************************)
(* Properties of the Relayer's claim                                       *)
(***************************************************************************)
\* the outcome handler has submitted its ClaimEvmDeposit command
ClaimSubmitted(h) == h.kind = "outcome" /\ h.pc \in {"done", "failed"} /\ h.pend # 0

\* C26: a claim command of the Relayer names the triggering evidence and an
\* anchor of the same request id that the lookup found active; a holding that
\* results consumed that anchor and that evidence, is owned by the anchor's
\* requester and has the integer value of the anchor's second call argument
\* as amount.
C26_ClaimArguments ==
    /\ \A i \in DOMAIN rh :
          ClaimSubmitted(rh[i]) =>
              /\ ContractAt(rh[i].pend).tmpl = "PendingEvmDeposit"
              /\ ContractAt(rh[i].ev).tmpl = "EvmTxOutcomeSignature"
              /\ ContractAt(rh[i].pend).rid = ContractAt(rh[i].ev).rid
    /\ \A h \in Holdings :
          h.by = "relayer" =>
              /\ \E i \in DOMAIN rh :
                    ClaimSubmitted(rh[i]) /\ rh[i].pend = h.pend /\ rh[i].ev = h.outc
              /\ h.owner = IntentOf(ContractAt(h.pend).rid).requester
              /\ h.amount = HexToNat(IntentOf(ContractAt(h.pend).rid).args[2])

\* the Relayer's claim for the second request id has produced a holding
C26_Witness ==
    \E h \in Holdings :
        /\ h.by = "relayer"
        /\ h.rid = MaxTestRequestIds
        /\ h.amount = 16 * MaxTestRequestIds

(***************************************************************************)
(* Properties of the pure functions                                        *)
(***************************************************************************)
\* C24: for one anchor and one signature evidence, the signed transaction the
\* Relayer broadcasts is the one the Signer reconstructs and polls for.
C24_SameSignedTx ==
    (output.signerTx # NoValue /\ output.relayerTx # NoValue) =>
        output.relayerTx = output.signerTx

\* both have reconstructed, from evidence whose v came as decimal text and
\* whose r has a leading zero digit
C24_Witness ==
    /\ output.signerTx # NoValue
    /\ output.relayerTx # NoValue
    /\ "str" \in DOMAIN output.evidence.v
    /\ input.v = 1
    /\ input.r[1] = 0


(***************************************************************************)
(* Properties of the request id                                            *)
(***************************************************************************)
\* the inputs are ones RequestEvmDeposit computes with
LedgerInputs ==
    /\ input.keyVersion = LedgerKeyVersion
    /\ input.caip2Id = LedgerCaip2Id(input.evmParams)

\* C27: for a sender, intent and derivation context the ledger accepts, the
\* request id the TypeScript computeRequestId returns is, digit for digit
\* after its "0x", the request id the ledger computes and stores on the
\* anchor for the same inputs.
C27_SameRequestId ==
    (output.ts # NoValue /\ output.ledger # NoValue /\ LedgerInputs)
        => SliceHexPrefix(output.ts) = output.ledger

C27_Witness ==
    /\ output.ts # NoValue
    /\ output.ledger # NoValue
    /\ LedgerInputs
    /\ CanonicalWidths(input.evmParams)
    /\ Len(input.evmParams.args) = 2

\* C28: changing one input of computeRequestId, the others held fixed,
\* changes the result.
C28_ChangedInputChangesResult ==
    (output.changed # "none" /\ output.ts # NoValue) => output.ts # output.before

\* C29: encoding an intent with a hex field that has not its declared width
\* is rejected: no packed encoding comes out of it.
C29_WrongWidthRejected ==
    output.ts # NoValue => CanonicalWidths(input.evmParams)

(***************************************************************************)
(* Properties of the child key derivation                                  *)
(***************************************************************************)
\* C30: if (root + epsilon) mod n is 0 the derivation fails: no child key is
\* returned.
C30_ZeroChildNotReturned ==
    (input.rootPrivateKey + input.epsilon) % CURVE_ORDER = 0
        => output.childPrivateKey = NoValue

(***************************************************************************)
(* Properties of reconnection and of the cursor                            *)
(***************************************************************************)
\* C34: the delay before the k-th consecutive reconnection attempt
\* (k = 0, 1, 2, ...) is min(base * 2^k, configured maximum): each delay is
\* double the one before until the cap is reached, and none exceeds the cap.
C34_BackoffDelays ==
    \A i \in DOMAIN delays :
        /\ delays[i] = Min(BaseDelayMs * 2 ^ (i - 1), MaxDelayMs)
        /\ delays[i] <= MaxDelayMs
        /\ i > 1 => (delays[i] = 2 * delays[i - 1] \/ delays[i] = MaxDelayMs)

C34_Witness ==
    /\ reconnectTimer
    /\ Len(delays) >= 3
    /\ delays[2] = 2 * delays[1]
    /\ delays[3] = MaxDelayMs
    /\ delays[3] < 2 * delays[2]

\* C35: the cursor is advanced to an update's offset before the handler is
\* invoked for it, so that the cursor every subscription and poll carries
\* is the offset of the last update handed over, or the starting offset.
C35_CursorIsLastHanded ==
    procUp => currentOffset = IF handed = <<>> THEN begin0
                              ELSE handed[Len(handed)].off

SockLive == sock \in {"connecting", "open", "closing"}

PollLive == polling \in {"inflight", "backoff"}

\* C38: a stream client has at most one active transport: no WebSocket
\* together with the polling loop, and no pending reconnect timer while a
\* socket or the polling loop is active; a socket is created, and the loop
\* started, only from a state that has neither.
C38_OneTransport ==
    /\ ~(SockLive /\ PollLive)
    /\ reconnectTimer => (~SockLive /\ ~PollLive)

C38_Witness ==
    /\ ~closed
    /\ polling = "inflight"
    /\ reconnects >= 1
    /\ Len(handed) >= 1

(***************************************************************************)
(* Properties of the preimages                                             *)
(***************************************************************************)
\* C39: distinct derivation contexts (chain context, predecessor id, path)
\* give distinct derivation strings and so distinct epsilons and child
\* keys, also when a component contains the separator ":".
C39_DistinctContextsDistinctEpsilon ==
    (output.before # NoValue /\ output.epsilon # NoValue)
        => output.epsilon # output.before

\* C40: the string hashed into the request id is an injective encoding of
\* the input tuple: two different tuples never give the same preimage.
C40_InjectivePreimage ==
    (output.before # NoValue /\ output.packed # NoValue)
        => output.packed # output.before

(***************************************************************************)
(* Properties of crediting                                                 *)
(***************************************************************************)
\* C36: each external-chain transaction is credited at most once: when two
\* intents of identical content, hence of one request id and one signed
\* transaction, are anchored, no two holdings are created for it.
C36_CreditedAtMostOnce ==
    \A rid \in RequestIds :
        Cardinality({h \in Holdings : h.rid = rid}) <= 1

\* outcome evidence the Signer posted
SignerOutcomes == {c \in ByTemplate("EvmTxOutcomeSignature") : c.by = "signer"}

\* C37: the Signer attests the failure code for a request id only if the
\* request's transaction did not succeed on the external chain: no
\* transaction that has succeeded, however late it was broadcast or mined,
\* is left with a failure attestation.
C37_NoFailureAttestedForSuccess ==
    \A c \in SignerOutcomes : c.out = "00" => chain[c.rid] # "success"

\* C33: every outcome attestation the Signer posts is a signature made with
\* the root key, never a child key, over Hash(requestId || outcomeCode) for
\* the request id and the outcome code of the same command, and it verifies
\* against the root public key.
C33_AttestedWithRootKey ==
    \A c \in SignerOutcomes :
        /\ c.sig.key = "root"
        /\ c.sig.rid = c.rid
        /\ c.sig.out = c.out
        /\ VerifiesUnderRoot(c.sig, c.rid, c.out)

C33_Witness ==
    /\ \E c \in SignerOutcomes : c.out = "01"
    /\ \E c \in SignerOutcomes : c.out = "00"

\* C32: the address of the public key of the child private key the Signer
\* derives equals the address the Initiator derives from the root public key
\* for the same derivation context.
C32_SameChildAddress ==
    (output.signerAddress # NoValue /\ output.depositAddress # NoValue)
        => output.signerAddress = output.depositAddress

\* The same, for the contexts whose child key is not zero.
C32_SameChildAddressNonZero ==
    (/\ output.signerAddress # NoValue
     /\ output.depositAddress # NoValue
     /\ (input.rootPrivateKey + input.epsilon) % CURVE_ORDER # 0)
        => output.signerAddress = output.depositAddress

\* the fields of an intent, as the integers its hex strings stand for
IntentFields(evmParams) ==
    [chainId |-> HexToNat(evmParams.chainId),
     nonce |-> HexToNat(evmParams.nonce),
     maxPriorityFeePerGas |-> HexToNat(evmParams.maxPriorityFee),
     maxFeePerGas |-> HexToNat(evmParams.maxFeePerGas),
     gas |-> HexToNat(evmParams.gasLimit),
     to |-> evmParams.to,
     value |-> HexToNat(evmParams.value),
     data |-> buildCalldata(evmParams.functionSignature, evmParams.args)]

\* C31: the signed transaction built from an intent and the child key's
\* signature over the hash of the unsigned serialization, parsed back, has
\* the fields of the intent and recovers to the address of the child public
\* key, and the recovery value is 0 or 1.
C31_RoundTrip ==
    output.parsed # NoValue =>
        /\ output.parsed.fields = IntentFields(input.evmParams)
        /\ output.parsed.signer = publicKeyToEthAddress(getPublicKey(input.childKey))
        /\ output.signature.v \in {0, 1}

\* The same, but for the fields of the intent.
C31_SignerAndRecoveryValue ==
    output.parsed # NoValue =>
        /\ output.parsed.signer = publicKeyToEthAddress(getPublicKey(input.childKey))
        /\ output.signature.v \in {0, 1}

====
